---- MODULE Spec2Model ----
(***************************************************************************)
(* A model of the VAPID token codec of rust/vapid/src/lib.rs:              *)
(* parse_auth_token, Key::to_public_raw / Key::from_public_raw, sign and   *)
(* verify.                                                                 *)
(*                                                                         *)
(* Representation.                                                         *)
(*  - A header string is a sequence of atoms.  An atom is one delimiter    *)
(*    character (' ', ',', '=', '.'), a word (a maximal run of other       *)
(*    characters) or the base64url (no padding) text of a payload.  The    *)
(*    base64url alphabet holds none of the four delimiters, so a split on  *)
(*    a delimiter never cuts an atom.                                      *)
(*  - Byte strings (keys, signatures) are sequences of 0..255.             *)
(*  - A claim string (the value of "sub", "aud") is a sequence of          *)
(*    one-character strings.                                               *)
(*  - A call that panics (unwrap / expect / index out of range) is the     *)
(*    result tagged "Panic"; Ok and Err are the returned values.           *)
(***************************************************************************)
EXTENDS Integers, Sequences, FiniteSets, TLC

\* ------------------------------------------------------------------------
\* Claim values (serde_json::Value) and the claim mapping
\* ------------------------------------------------------------------------

ClaimKeys == {"sub", "exp", "aud"}

Absent == [t |-> "absent", s |-> <<>>, n |-> 0]

JStr(s) == [t |-> "str", s |-> s, n |-> 0]

JInt(n) == [t |-> "int", s |-> <<>>, n |-> n]

NoClaims == [key \in ClaimKeys |-> Absent]

\* str::starts_with
StartsWith(s, prefix) ==
    /\ Len(s) >= Len(prefix)
    /\ SubSeq(s, 1, Len(prefix)) = prefix

Mailto == <<"m", "a", "i", "l", "t", "o">>

\* ------------------------------------------------------------------------
\* Payloads, base64url and header atoms
\* ------------------------------------------------------------------------

NoPayload == [kind |-> "none", bytes |-> <<>>, text |-> "", claims |-> NoClaims]

\* raw bytes
Bytes(b) == [kind |-> "bytes", bytes |-> b, text |-> "", claims |-> NoClaims]

\* a literal text
Text(s) == [kind |-> "text", bytes |-> <<>>, text |-> s, claims |-> NoClaims]

\* serde_json::to_string of a claim mapping: the JSON object text of the
\* present keys (key order is the map's, and is not observed)
Json(c) == [kind |-> "json", bytes |-> <<>>, text |-> "", claims |-> c]

Ch(c) == [k |-> "ch", s |-> c, p |-> NoPayload]

W(w) == [k |-> "w", s |-> w, p |-> NoPayload]

\* BASE64_URL_SAFE_NO_PAD.encode
B64Encode(p) == <<[k |-> "b64", s |-> "", p |-> p]>>

\* BASE64_URL_SAFE_NO_PAD.decode: the payload of a string that is one
\* base64url text, the empty string decoding to no bytes; anything else
\* (a word outside the alphabet's shape, a delimiter inside) is an error.
B64Decode(str) ==
    IF str = <<>> THEN [ok |-> TRUE, p |-> Bytes(<<>>)]
    ELSE IF Len(str) = 1 /\ str[1].k = "b64" THEN [ok |-> TRUE, p |-> str[1].p]
    ELSE [ok |-> FALSE, p |-> NoPayload]

SP == Ch(" ")

COMMA == Ch(",")

EQ == Ch("=")

DOT == Ch(".")

\* str::to_lowercase on the words of the model's alphabet
LowerWord(w) ==
    CASE w = "Authorization:" -> "authorization:"
      [] w = "AUTHORIZATION:" -> "authorization:"
      [] w = "Vapid" -> "vapid"
      [] w = "VAPID" -> "vapid"
      [] w = "WebPush" -> "webpush"
      [] w = "Bogus" -> "bogus"
      [] w = "T" -> "t"
      [] w = "K" -> "k"
      [] OTHER -> w

\* to_lowercase of one atom: a base64url text is mixed-case, its lowercase
\* form is another text and no longer the encoding of the payload
LowerAtom(a) ==
    CASE a.k = "w" -> W(LowerWord(a.s))
      [] a.k = "b64" -> [a EXCEPT !.k = "b64lower"]
      [] OTHER -> a

ToLowercase(str) == [i \in 1..Len(str) |-> LowerAtom(str[i])]

\* position of the first d in str, 0 when there is none
FirstIdx(str, d) ==
    IF \E i \in 1..Len(str) : str[i] = d
    THEN CHOOSE i \in 1..Len(str) :
            /\ str[i] = d
            /\ \A j \in 1..(i - 1) : str[j] # d
    ELSE 0

\* str::split(d): every piece, empty ones included, at least one piece
RECURSIVE Split(_, _)
Split(str, d) ==
    LET i == FirstIdx(str, d)
    IN  IF i = 0 THEN <<str>>
        ELSE <<SubSeq(str, 1, i - 1)>> \o Split(SubSeq(str, i + 1, Len(str)), d)

\* str::splitn(2, d): cut at the first d only
SplitN2(str, d) ==
    LET i == FirstIdx(str, d)
    IN  IF i = 0 THEN <<str>>
        ELSE <<SubSeq(str, 1, i - 1), SubSeq(str, i + 1, Len(str))>>

\* ------------------------------------------------------------------------
\* parse_auth_token
\* ------------------------------------------------------------------------

\* Result<AuthElements, String>, or the panic of an index out of range
ParseOk(t, k) == [tag |-> "Ok", t |-> t, k |-> k, msg |-> "", arg |-> <<>>]

ParseErr(msg, arg) == [tag |-> "Err", t |-> <<>>, k |-> <<>>, msg |-> msg, arg |-> arg]

ParsePanic(msg) == [tag |-> "Panic", t |-> <<>>, k |-> <<>>, msg |-> msg, arg |-> <<>>]

\* one turn of the loop over the fields of the vapid schema
VapidField(reply, kvi) ==
    LET kv == SplitN2(kvi, EQ)
        name == ToLowercase(kv[1])
    IN  IF reply.tag # "Ok" THEN reply
        ELSE IF name = <<W("t")>> THEN
            IF Len(kv) < 2 THEN ParsePanic("index out of bounds")
            ELSE LET ts == Split(kv[2], DOT)
                 IN  IF Len(ts) # 3 THEN ParseErr("Invalid t token specified", <<>>)
                     ELSE [reply EXCEPT !.t = <<ts[1] \o <<DOT>> \o ts[2], ts[3]>>]
        ELSE IF name = <<W("k")>> THEN
            IF Len(kv) < 2 THEN ParsePanic("index out of bounds")
            ELSE [reply EXCEPT !.k = kv[2]]
        ELSE reply

RECURSIVE VapidFields(_, _)
VapidFields(reply, fields) ==
    IF fields = <<>> THEN reply
    ELSE VapidFields(VapidField(reply, Head(fields)), Tail(fields))

\* the match on the schema, parts being what follows the schema token
ParseSchema(schema, parts) ==
    IF schema = <<W("vapid")>> THEN
        IF parts = <<>> THEN ParsePanic("index out of bounds")
        ELSE VapidFields(ParseOk(<<>>, <<>>), SplitN2(parts[1], COMMA))
    ELSE IF schema = <<W("webpush")>> THEN
        IF parts = <<>> THEN ParsePanic("index out of bounds")
        ELSE ParseOk(Split(parts[1], DOT), <<>>)
    ELSE
        IF parts = <<>> THEN ParsePanic("index out of bounds")
        ELSE ParseErr("Unknown schema type: ", parts[1])

parse_auth_token(auth_token) ==
    LET parts == Split(auth_token, SP)
        schema == ToLowercase(parts[1])
        rest == Tail(parts)
    IN  IF schema = <<W("authorization:")>> THEN
            IF rest = <<>> THEN ParsePanic("removal index out of bounds")
            ELSE ParseSchema(ToLowercase(ToLowercase(Head(rest))), Tail(rest))
        ELSE ParseSchema(ToLowercase(schema), rest)

\* ------------------------------------------------------------------------
\* Bytes, keys and the elliptic-curve primitive
\* ------------------------------------------------------------------------

\* 0-based indexing and half-open slices, as in the source
At(b, i) == b[i + 1]

Slice(b, lo, hi) == SubSeq(b, lo + 1, hi)

KeyIds == {"A", "B"}

NoKey == "moved"

\* the 64 coordinate bytes of a key's public point
Coord(key) == IF key = "A" THEN 17 ELSE 34

PointLen == 65

UncompressedTag == 4

\* EcPoint::to_bytes(UNCOMPRESSED): 0x04, X, Y
PubBytes(key) == [i \in 1..PointLen |-> IF i = 1 THEN UncompressedTag ELSE Coord(key)]

\* Key::to_public_raw
to_public_raw(key) == B64Encode(Bytes(PubBytes(key)))

\* Key::from_public_raw: the key whose point the string encodes
PubOk(key) == [tag |-> "Ok", key |-> key]

PubErr(kind) == [tag |-> "Err", key |-> kind]

PubPanic == [tag |-> "Panic", key |-> "unwrap on a base64 error"]

\* a decoded text (the JWT header literal, a JSON object) starts with '{',
\* never with the 0x04 tag
from_public_raw(bits) ==
    LET d == B64Decode(bits)
    IN  IF ~d.ok THEN PubPanic
        ELSE IF d.p.kind # "bytes" THEN PubErr("PublicKey")
        ELSE IF Len(d.p.bytes) # PointLen \/ At(d.p.bytes, 0) # UncompressedTag
             THEN PubErr("PublicKey")
        ELSE IF \E key \in KeyIds : PubBytes(key) = d.p.bytes
             THEN PubOk(CHOOSE key \in KeyIds : PubBytes(key) = d.p.bytes)
        ELSE PubErr("OpenSSL")

\* A signature integer, 0 < v < 2^256, as its minimal big-endian bytes
MkInt(len, lead, fill) == [i \in 1..len |-> IF i = 1 THEN lead ELSE fill]

\* DER INTEGER: tag 0x02, length, content (0x00 first when the high bit is set)
DerInt(v) ==
    LET c == IF v[1] > 127 THEN <<0>> \o v ELSE v
    IN  <<2, Len(c)>> \o c

\* Signer::sign_to_vec: the DER SEQUENCE of the two integers
DerSig(r, s) ==
    LET body == DerInt(r) \o DerInt(s)
    IN  <<48, Len(body)>> \o body

\* ------------------------------------------------------------------------
\* Time and the u64 comparisons of sign
\* ------------------------------------------------------------------------

SecsPerDay == 86400

\* SystemTime at or after the epoch: whole seconds and the sub-second part
Time(secs, nanos) == [secs |-> secs, nanos |-> nanos]

\* today + time::Duration::hours(24)
PlusDay(t) == [t EXCEPT !.secs = t.secs + SecsPerDay]

\* to_secs: duration_since(UNIX_EPOCH).as_secs() drops the sub-second part
to_secs(t) == t.secs

\* A u64 is kept as <<wrap, v>>, the number wrap * 2^64 + v: an i64 x cast
\* with `as u64` is x itself when x >= 0 and 2^64 + x when x < 0, so every
\* cast negative lies above every value below 2^63.
U64(n) == [wrap |-> 0, v |-> n]

AsU64(x) == [wrap |-> IF x < 0 THEN 1 ELSE 0, v |-> x]

U64Less(a, b) == a.wrap < b.wrap \/ (a.wrap = b.wrap /\ a.v < b.v)

\* ------------------------------------------------------------------------
\* sign
\* ------------------------------------------------------------------------

SCHEMA == "vapid"

\* the common, static header of every VAPID JWT
prefix == "{\"typ\":\"JWT\",\"alg\":\"ES256\"}"

\* VapidResult<String>, or a panic
SignOk(header) == [tag |-> "Ok", kind |-> "", msg |-> "", header |-> header]

SignErr(kind, msg) == [tag |-> "Err", kind |-> kind, msg |-> msg, header |-> <<>>]

SignPanic(msg) == [tag |-> "Panic", kind |-> "", msg |-> msg, header |-> <<>>]

\* the check of "sub": "" when it passes
CheckSub(claims) ==
    LET sub == claims["sub"]
    IN  IF sub.t = "absent" THEN SignErr("Protocol", "'sub' not found")
        ELSE IF sub.t # "str" THEN SignPanic("unwrap on None: sub.as_str()")
        ELSE IF ~StartsWith(sub.s, Mailto)
             THEN SignErr("Protocol", "'sub' not a valid HTML reference")
        ELSE SignOk(<<>>)

\* the insertion with the default taken from today instead of tomorrow
InsertExpFromToday(claims, tomorrow) ==
    IF claims["exp"].t = "absent"
    THEN [claims EXCEPT !["exp"] = JInt(to_secs(tomorrow) - SecsPerDay)]
    ELSE claims

\* claims.entry("exp").or_insert_with(to_secs(tomorrow))
InsertExp(claims, tomorrow) ==
    IF claims["exp"].t = "absent"
    THEN [claims EXCEPT !["exp"] = JInt(to_secs(tomorrow))]
    ELSE claims

\* the check of "exp" against the window
CheckExp(claims, today, tomorrow) ==
    LET exp == claims["exp"]
    IN  IF exp.t = "absent"
        THEN SignErr("Protocol", "\"exp\" failed to initialize")
        ELSE IF exp.t # "int" THEN SignPanic("unwrap on None: exp.as_i64()")
        ELSE IF U64Less(AsU64(exp.n), U64(to_secs(today)))
             THEN SignErr("Protocol", "\"exp\" already expired")
        ELSE IF U64Less(U64(to_secs(tomorrow)), AsU64(exp.n))
             THEN SignErr("Protocol", "\"exp\" set too far ahead")
        ELSE SignOk(<<>>)

\* header segment "." claims segment
Content(claims) == B64Encode(Text(prefix)) \o <<DOT>> \o B64Encode(Json(claims))

HalfLen == 32

PaddedLen == 33

\* one integer of the primitive's signature, its leading 0 stripped
StripLead(len, val) ==
    IF len = PaddedLen /\ At(val, 0) = 0 THEN Slice(val, 1, Len(val)) ELSE val

\* the r,s pair cut out of the primitive's signature and concatenated
RawSig(signature) ==
    LET r_off == 3
        r_len == At(signature, r_off)
        s_off == r_off + r_len + 2
        s_len == At(signature, s_off)
        r_val == Slice(signature, r_off + 1, r_off + 1 + r_len)
        s_val == Slice(signature, s_off + 1, s_off + 1 + s_len)
    IN  StripLead(r_len, r_val) \o StripLead(s_len, s_val)

\* the Authorization header of a content and a raw signature.  The raw
\* bytes pass through String::from_utf8_unchecked only to be read back as
\* bytes by the encoder (AsRef<[u8]>): no str operation ever looks at them,
\* so the text encoded is that of the bytes themselves.
FormatHeader(content, sigval, auth_k) ==
    <<W("Authorization:"), SP, W(SCHEMA), SP, W("t"), EQ>>
        \o content \o <<DOT>> \o B64Encode(Bytes(sigval))
        \o <<COMMA, W("k"), EQ>> \o auth_k

\* sign(key, &mut claims) at time today, the primitive returning (r, s):
\* the result and the caller's mapping after the call.  The primitive is
\* taken to work (PKey::from_ec_key, Signer::new and sign_to_vec succeed) and
\* to return the DER encoding of (r, s), which the offsets of RawSig never
\* leave.
sign(key, claims, today, r, s) ==
    LET tomorrow == PlusDay(today)
        sub == CheckSub(claims)
        claims1 == InsertExp(claims, tomorrow)
        exp == CheckExp(claims1, today, tomorrow)
        content == Content(claims1)
        signature == DerSig(r, s)
    IN  IF sub.tag # "Ok" THEN [res |-> sub, claims |-> claims]
        ELSE IF exp.tag # "Ok" THEN [res |-> exp, claims |-> claims1]
        ELSE [res |-> SignOk(FormatHeader(content, RawSig(signature),
                                          to_public_raw(key))),
              claims |-> claims1]

\* ------------------------------------------------------------------------
\* The primitive's verify
\* ------------------------------------------------------------------------

\* a signature the primitive issued: signer, message, the two integers
Issued(key, msg, r, s) == [key |-> key, msg |-> msg, r |-> r, s |-> s]

BadDer == [ok |-> FALSE, r |-> <<>>, s |-> <<>>]

\* the content of a DER INTEGER is minimal: not empty, and a leading 0x00
\* only in front of a byte with the high bit set
MinimalInt(c) ==
    /\ Len(c) >= 1
    /\ (Len(c) > 1 /\ c[1] = 0) => c[2] > 127

\* strict DER reading of SEQUENCE { INTEGER, INTEGER }: every length is the
\* exact count of what follows and nothing trails
ParseDer(seq) ==
    IF Len(seq) < 2 \/ seq[1] # 48 \/ seq[2] # Len(seq) - 2 THEN BadDer
    ELSE LET body == SubSeq(seq, 3, Len(seq))
         IN  IF Len(body) < 2 \/ body[1] # 2 \/ Len(body) < 2 + body[2] THEN BadDer
             ELSE LET c1 == SubSeq(body, 3, 2 + body[2])
                      rest == SubSeq(body, 3 + body[2], Len(body))
                  IN  IF Len(rest) < 2 \/ rest[1] # 2 \/ Len(rest) # 2 + rest[2]
                      THEN BadDer
                      ELSE LET c2 == SubSeq(rest, 3, Len(rest))
                           IN  IF MinimalInt(c1) /\ MinimalInt(c2)
                               THEN [ok |-> TRUE, r |-> c1, s |-> c2]
                               ELSE BadDer

\* the magnitude of a non-negative DER INTEGER: its content without the pad
IntValue(c) == IF Len(c) > 1 /\ c[1] = 0 THEN Tail(c) ELSE c

\* Verifier::verify: "true" for a signature the holder of the private key of
\* pub issued over data, "false" for any other well-formed one; a sequence
\* that is not DER is refused as onMalformed ("false" or "err", the library's
\* choice)
PrimVerify(pub, data, seq, issued, onMalformed) ==
    LET d == ParseDer(seq)
    IN  IF ~d.ok THEN onMalformed
        ELSE IF /\ d.r[1] <= 127
                /\ d.s[1] <= 127
                /\ Issued(pub, data, IntValue(d.r), IntValue(d.s)) \in issued
             THEN "true"
        ELSE "false"

\* ------------------------------------------------------------------------
\* verify
\* ------------------------------------------------------------------------

\* Result<HashMap, String>, or a panic
VerifyOk(claims) == [tag |-> "Ok", claims |-> claims, msg |-> ""]

VerifyErr(msg) == [tag |-> "Err", claims |-> NoClaims, msg |-> msg]

VerifyPanic(msg) == [tag |-> "Panic", claims |-> NoClaims, msg |-> msg]

\* the bytes a base64url text decodes to
PayloadBytes(p) == CASE p.kind = "bytes" -> p.bytes

\* one half of the raw signature as a DER INTEGER
HalfAsn(val) ==
    <<2>> \o (IF At(val, 0) > 127 THEN <<PaddedLen, 0>> ELSE <<HalfLen>>) \o val

\* the DER sequence composed by hand from the raw signature
ComposeDer(verif_sig) ==
    LET r_asn == HalfAsn(Slice(verif_sig, 0, HalfLen))
        s_asn == HalfAsn(Slice(verif_sig, HalfLen, Len(verif_sig)))
    IN  <<48, (Len(r_asn) + Len(s_asn)) % 256>> \o r_asn \o s_asn

\* the claims of a verified token: the second segment of t[0]
DecodeClaims(token) ==
    LET claim_data == Split(token, DOT)
        d == B64Decode(claim_data[2])
    IN  IF ~d.ok THEN VerifyPanic("Claims were not properly base64 encoded")
        ELSE CASE d.p.kind = "json" -> VerifyOk(d.p.claims)
               [] d.p.kind = "bytes" ->
                    VerifyPanic("Claims included an invalid character and could not be decoded.")

\* verify(auth_token), given the signatures issued so far; PKey::from_ec_key
\* and Verifier::new are taken to succeed on a key from_public_raw accepted
verify(auth_token, issued, onMalformed) ==
    LET parsed == parse_auth_token(auth_token)
        pub == from_public_raw(parsed.k)
        sig == B64Decode(parsed.t[2])
        verif_sig == PayloadBytes(sig.p)
        outcome == PrimVerify(pub.key, parsed.t[1], ComposeDer(verif_sig),
                              issued, onMalformed)
    IN  IF parsed.tag # "Ok" THEN VerifyPanic("Authorization header is invalid.")
        ELSE IF pub.tag # "Ok" THEN VerifyPanic("'k' token is not a valid public key")
        ELSE IF Len(parsed.t) < 2 THEN VerifyPanic("index out of bounds")
        ELSE IF ~sig.ok THEN VerifyPanic("Signature failed to decode from base64")
        ELSE IF Len(verif_sig) < HalfLen THEN VerifyPanic("range end index out of range")
        ELSE IF Len(verif_sig) = HalfLen THEN VerifyPanic("index out of bounds")
        ELSE IF outcome = "true" THEN DecodeClaims(parsed.t[1])
        ELSE IF outcome = "false" THEN VerifyErr("Verify failed")
        ELSE VerifyErr("Verify failed ErrorStack")

\* ------------------------------------------------------------------------
\* The inputs explored
\* ------------------------------------------------------------------------

\* the clock runs over MaxClock + 1 consecutive seconds
MaxClock == 1

Epochs == 1700000000..(1700000000 + MaxClock)

Now0 == CHOOSE n \in Epochs : \A m \in Epochs : n <= m

Times == {Time(secs, nanos) : secs \in Epochs, nanos \in {0, 999999999}}

Chars(w) ==
    CASE w = "mailto:a" -> <<"m", "a", "i", "l", "t", "o", ":", "a">>
      [] w = "mailto" -> <<"m", "a", "i", "l", "t", "o">>
      [] w = "Mailto:a" -> <<"M", "a", "i", "l", "t", "o", ":", "a">>
      [] w = "invalid" -> <<"i", "n", "v", "a", "l", "i", "d">>
      [] w = "https://h" -> <<"h", "t", "t", "p", "s", ":", "/", "/", "h">>
      [] w = "14" -> <<"1", "4">>

SubValues ==
    {Absent, JInt(42), JStr(Chars("mailto:a")), JStr(Chars("mailto")),
     JStr(Chars("Mailto:a")), JStr(Chars("invalid"))}

ExpValues ==
    {Absent, JStr(Chars("14")), JInt(-1), JInt(Now0 - 1), JInt(Now0),
     JInt(Now0 + 1), JInt(Now0 + SecsPerDay), JInt(Now0 + SecsPerDay + 1),
     JInt(Now0 + SecsPerDay + 2)}

AudValues == {Absent, JStr(Chars("https://h"))}

\* the mappings a caller builds
CallerClaims ==
    {[key \in ClaimKeys |-> IF key = "sub" THEN sub ELSE IF key = "exp" THEN exp ELSE aud] :
        sub \in SubValues, exp \in ExpValues, aud \in AudValues}

\* the integers the primitive returns: full width with the high bit clear
\* and set, one byte short with the high bit set and clear, and half width
SigInts ==
    {MkInt(HalfLen, 90, 7), MkInt(HalfLen, 200, 7),
     MkInt(HalfLen - 1, 200, 7), MkInt(HalfLen - 1, 90, 7),
     MkInt(HalfLen \div 2, 90, 7)}

\* segments for hand-written headers
HdrSeg == B64Encode(Text(prefix))

ClaimsSeg ==
    B64Encode(Json([NoClaims EXCEPT !["sub"] = JStr(Chars("mailto:a")),
                                    !["exp"] = JInt(Now0)]))

SigSeg(len) == B64Encode(Bytes([i \in 1..len |-> 9]))

\* the raw signature of a signer that pads each integer on the left to 32
\* bytes, as the wire format asks
PaddedSig(r, s) ==
    B64Encode(Bytes([i \in 1..(2 * HalfLen) |->
        IF i <= HalfLen
        THEN (IF i <= HalfLen - Len(r) THEN 0 ELSE r[i - (HalfLen - Len(r))])
        ELSE (IF i - HalfLen <= HalfLen - Len(s) THEN 0
              ELSE s[i - HalfLen - (HalfLen - Len(s))])]))

Tok2 == HdrSeg \o <<DOT>> \o ClaimsSeg

Tok3 == Tok2 \o <<DOT>> \o SigSeg(2 * HalfLen)

Tok4 == Tok3 \o <<DOT, W("x")>>

TField(tok) == <<W("t"), EQ>> \o tok

KField(k) == <<W("k"), EQ>> \o k

Vapid(fields) == <<W("vapid"), SP>> \o fields

GoodK == to_public_raw("A")

\* headers that no call of sign produced
StaticHeaders ==
    { <<W("bogus"), SP, W("abc")>>,
      <<W("bogus")>>,
      <<W("Authorization:")>>,
      <<W("Authorization:"), SP, W("Bogus")>>,
      <<W("AUTHORIZATION:"), SP, W("bogus"), SP, W("abc")>>,
      <<W("vapid")>>,
      <<W("webpush"), SP>> \o Tok3,
      <<W("VAPID"), SP, W("T"), EQ>> \o Tok3 \o <<COMMA, W("K"), EQ>> \o GoodK,
      Vapid(TField(Tok3) \o <<COMMA>> \o KField(GoodK)),
      Vapid(KField(GoodK) \o <<COMMA>> \o TField(Tok3)),
      Vapid(TField(Tok2) \o <<COMMA>> \o KField(GoodK)),
      Vapid(TField(Tok4) \o <<COMMA>> \o KField(GoodK)),
      Vapid(KField(GoodK)),
      Vapid(TField(Tok3)),
      Vapid(<<W("t")>>),
      Vapid(<<W("x"), EQ, W("1"), COMMA>> \o TField(Tok3) \o <<COMMA>> \o KField(GoodK)),
      Vapid(TField(Tok3) \o <<COMMA>> \o KField(<<W("not+base64")>>)),
      Vapid(TField(Tok2 \o <<DOT, W("not+base64")>>) \o <<COMMA>> \o KField(GoodK)),
      Vapid(TField(Tok3) \o <<COMMA>> \o KField(SigSeg(2 * HalfLen))),
      Vapid(TField(Tok3) \o <<COMMA>>
            \o KField(B64Encode(Bytes([PubBytes("A") EXCEPT ![1] = 3])))),
      Vapid(TField(Tok3) \o <<COMMA>>
            \o KField(B64Encode(Bytes([PubBytes("A") EXCEPT ![2] = 99])))),
      Vapid(TField(Tok2 \o <<DOT>> \o SigSeg(HalfLen \div 2)) \o <<COMMA>> \o KField(GoodK)),
      Vapid(TField(Tok2 \o <<DOT>> \o SigSeg(2 * HalfLen + 1)) \o <<COMMA>> \o KField(GoodK)),
      Vapid(TField(Tok2 \o <<DOT>> \o PaddedSig(MkInt(HalfLen - 1, 90, 7), MkInt(HalfLen, 200, 7)))
            \o <<COMMA>> \o KField(GoodK)),
      Vapid(TField(Tok2 \o <<DOT>> \o PaddedSig(MkInt(HalfLen, 200, 7), MkInt(HalfLen - 2, 200, 7)))
            \o <<COMMA>> \o KField(GoodK)) }

OtherKey(key) == CHOOSE other \in KeyIds : other # key

\* the header of sign with its k field replaced by another key's public key
SwapK(header, key) ==
    LET i == FirstIdx(header, COMMA)
    IN  SubSeq(header, 1, i) \o KField(to_public_raw(OtherKey(key)))

\* the header of sign without the leading "Authorization: "
Bare(header) == SubSeq(header, 3, Len(header))

\* ------------------------------------------------------------------------
\* The state machine: a caller builds a mapping and a key, signs at most
\* once (sign takes the key by value), and then hands one header to verify or
\* to parse_auth_token; the calls share no state but the mapping and the
\* signatures issued, so longer runs add no behaviour
\* ------------------------------------------------------------------------

VARIABLES
    claims,     \* the caller's claim mapping
    key,        \* the caller's key, NoKey once moved into sign
    issued,     \* the signatures the primitive issued
    signCall,   \* the call of sign: its inputs and its result
    call        \* the latest call of verify or parse_auth_token

vars == <<claims, key, issued, signCall, call>>

NoSig == Issued(NoKey, <<>>, <<>>, <<>>)

NoSign ==
    [done |-> FALSE, before |-> NoClaims, today |-> Time(0, 0), sig |-> NoSig,
     res |-> SignPanic("")]

NoCall ==
    [op |-> "none", input |-> <<>>, vres |-> VerifyPanic(""), pres |-> ParsePanic("")]

Init ==
    /\ claims \in CallerClaims
    /\ key \in KeyIds
    /\ issued = {}
    /\ signCall = NoSign
    /\ call = NoCall

\* sign(key, &mut claims): the primitive is reached only by valid claims
Sign(today, r, s) ==
    /\ key \in KeyIds
    /\ call.op = "none"
    /\ LET out == sign(key, claims, today, r, s)
           sig == IF out.res.tag = "Ok"
                  THEN Issued(key, Content(out.claims), r, s)
                  ELSE NoSig
       IN  /\ claims' = out.claims
           /\ issued' = IF out.res.tag = "Ok" THEN issued \cup {sig} ELSE issued
           /\ signCall' = [done |-> TRUE, before |-> claims, today |-> today,
                           sig |-> sig, res |-> out.res]
    /\ key' = NoKey
    /\ UNCHANGED call

\* what the header of sign becomes on its way to verify
SignedHeaders ==
    IF signCall.res.tag = "Ok"
    THEN {signCall.res.header, Bare(signCall.res.header),
          SwapK(signCall.res.header, signCall.sig.key)}
    ELSE {}

\* the headers handed to verify and parse_auth_token: those of another
\* party before the caller signed (they read nothing of the caller's
\* state), the caller's own after
Headers == IF signCall.done THEN SignedHeaders ELSE StaticHeaders

\* verify(auth_token)
Verify(auth_token, onMalformed) ==
    /\ call.op = "none"
    /\ call' = [op |-> "verify", input |-> auth_token,
                vres |-> verify(auth_token, issued, onMalformed),
                pres |-> NoCall.pres]
    /\ UNCHANGED <<claims, key, issued, signCall>>

\* parse_auth_token(auth_token)
Parse(auth_token) ==
    /\ call.op = "none"
    /\ call' = [op |-> "parse", input |-> auth_token,
                vres |-> NoCall.vres,
                pres |-> parse_auth_token(auth_token)]
    /\ UNCHANGED <<claims, key, issued, signCall>>

Next ==
    \/ \E today \in Times, r \in SigInts, s \in SigInts : Sign(today, r, s)
    \/ \E h \in Headers, m \in {"false", "err"} : Verify(h, m)
    \/ \E h \in Headers : Parse(h)

Spec == Init /\ [][Next]_vars

\* ------------------------------------------------------------------------
\* What the properties read off a call
\* ------------------------------------------------------------------------

\* a header string cut as the wire grammar
\* "Authorization: vapid t=" T ",k=" K
WireT(h) == SubSeq(h, 7, FirstIdx(h, COMMA) - 1)

WireK(h) == SubSeq(h, FirstIdx(h, COMMA) + 3, Len(h))

WireShape(h) ==
    /\ FirstIdx(h, COMMA) > 0
    /\ h = <<W("Authorization:"), SP, W("vapid"), SP, W("t"), EQ>>
             \o WireT(h) \o <<COMMA, W("k"), EQ>> \o WireK(h)

\* the decoded bytes of a base64url segment, <<>> with ok FALSE otherwise
DecodedBytes(seg) ==
    LET d == B64Decode(seg)
    IN  IF d.ok /\ d.p.kind = "bytes" THEN [ok |-> TRUE, bytes |-> d.p.bytes]
        ELSE [ok |-> FALSE, bytes |-> <<>>]

\* a 256-bit integer as 32 big-endian bytes, zero-padded on the left
Canon32(v) == [i \in 1..HalfLen |-> IF i <= HalfLen - Len(v) THEN 0 ELSE v[i - (HalfLen - Len(v))]]

\* the encoded length of an integer in the primitive's signature
EncodedLen(v) == DerInt(v)[2]

SubValid(c) == c["sub"].t = "str" /\ StartsWith(c["sub"].s, Mailto)

Now == to_secs(signCall.today)

SignedOk == signCall.done /\ signCall.res.tag = "Ok"

\* the schema token of a header, after an optional "Authorization:"
HasAuthPrefix(h) == ToLowercase(Split(h, SP)[1]) = <<W("authorization:")>>

HasSchemaToken(h) == HasAuthPrefix(h) => Len(Split(h, SP)) >= 2

SchemaToken(h) == IF HasAuthPrefix(h) THEN Split(h, SP)[2] ELSE Split(h, SP)[1]

\* what follows the schema token, up to the next space
SchemaRest(h) ==
    LET parts == Split(h, SP)
        n == IF HasAuthPrefix(h) THEN 3 ELSE 2
    IN  IF Len(parts) >= n THEN parts[n] ELSE <<>>

\* the values of the fields named name (t or k) of a vapid header
FieldValues(h, name) ==
    LET fields == Split(SchemaRest(h), COMMA)
    IN  {SplitN2(fields[i], EQ)[2] : i \in
            {j \in 1..Len(fields) :
                /\ Len(SplitN2(fields[j], EQ)) = 2
                /\ ToLowercase(SplitN2(fields[j], EQ)[1]) = <<W(name)>>}}

\* ------------------------------------------------------------------------
\* The claims
\* ------------------------------------------------------------------------

\* C1: sign-then-verify round trip.  Whenever sign succeeded (so the mapping
\* was valid) and verify is applied to the very header sign returned, for
\* every signature (r, s) of the primitive, short integers included, verify
\* returns Ok with a mapping equal to the post-validation claims.
C1_SignThenVerify ==
    (SignedOk /\ call.op = "verify" /\ call.input = signCall.res.header)
        => call.vres = VerifyOk(claims)

\* C2: wire format.  Every successful sign result is exactly
\* "Authorization: vapid t=" T ",k=" K, T has exactly 3 dot-separated
\* segments, the first is the base64url of the literal JWT header, the third
\* decodes to exactly 64 bytes, K decodes to exactly 65 bytes starting 0x04.
C2_WireFormat ==
    SignedOk =>
        LET h == signCall.res.header
            segs == Split(WireT(h), DOT)
        IN  /\ WireShape(h)
            /\ Len(segs) = 3
            /\ segs[1] = B64Encode(Text(prefix))
            /\ DecodedBytes(segs[3]).ok
            /\ Len(DecodedBytes(segs[3]).bytes) = 2 * HalfLen
            /\ DecodedBytes(WireK(h)).ok
            /\ Len(DecodedBytes(WireK(h)).bytes) = PointLen
            /\ DecodedBytes(WireK(h)).bytes[1] = UncompressedTag

\* C3: validation of sub.  After any call of sign: an absent sub gives the
\* returned error Protocol "'sub' not found"; a sub that is present but not a
\* string starting with "mailto" (a non-string value included) gives the
\* returned error Protocol "'sub' not a valid HTML reference"; no header is
\* produced and nothing aborts.
C3_SubValidation ==
    signCall.done =>
        /\ signCall.before["sub"].t = "absent"
            => signCall.res = SignErr("Protocol", "'sub' not found")
        /\ (signCall.before["sub"].t # "absent" /\ ~SubValid(signCall.before))
            => signCall.res = SignErr("Protocol", "'sub' not a valid HTML reference")

\* C4: validation of a present integer exp against the once-sampled now:
\* exp < now is rejected as "exp already expired", exp > now + 86400 as
\* "exp set too far ahead", every exp in [now, now + 86400] is accepted;
\* negative exp included.
C4_ExpWindow ==
    (signCall.done /\ SubValid(signCall.before) /\ signCall.before["exp"].t = "int") =>
        LET exp == signCall.before["exp"].n
        IN  /\ exp < Now
                => signCall.res = SignErr("Protocol", "\"exp\" already expired")
            /\ exp > Now + SecsPerDay
                => signCall.res = SignErr("Protocol", "\"exp\" set too far ahead")
            /\ (Now <= exp /\ exp <= Now + SecsPerDay) => signCall.res.tag = "Ok"

\* C5: synthesis of exp and frame.  After any call of sign, successful or
\* not, every key other than exp has the value it had before (none added,
\* none removed); and when sub was valid and exp absent, the mapping holds
\* exp = now + 86400, the call passed the window check and succeeded, and
\* the claims segment of the header is the encoding of that mapping.
C5_ExpSynthesisAndFrame ==
    signCall.done =>
        /\ \A name \in ClaimKeys \ {"exp"} : claims[name] = signCall.before[name]
        /\ (SubValid(signCall.before) /\ signCall.before["exp"] = Absent) =>
            /\ claims["exp"] = JInt(Now + SecsPerDay)
            /\ signCall.res.tag = "Ok"
            /\ Split(WireT(signCall.res.header), DOT)[2] = B64Encode(Json(claims))

\* C5 witness: sign was called with a valid sub, an aud and no exp, and
\* succeeded.
C5_Witness ==
    /\ SignedOk
    /\ signCall.before["exp"] = Absent
    /\ signCall.before["aud"] # Absent
    /\ claims["exp"].t = "int"

\* C6: verify never aborts.  For every input string verify returns the
\* mapping or an error value, and the error of a malformed input is not the
\* error of a signature that does not verify.
C6_VerifyNeverAborts ==
    call.op = "verify" =>
        /\ call.vres.tag \in {"Ok", "Err"}
        /\ (call.vres.tag = "Err" /\ parse_auth_token(call.input).tag # "Ok")
            => call.vres.msg # "Verify failed"

\* C7: no false positive.  verify returns a mapping only for a header whose
\* signature the holder of the k field's key issued over the header's
\* SignedContent, and the mapping is the decoding of that content's claims
\* segment; a header of sign with its k field replaced by another key's
\* public key yields the verification-failed error: no mapping, no abort.
C7_NoFalsePositive ==
    call.op = "verify" =>
        /\ call.vres.tag = "Ok" =>
            \E sg \in issued :
                /\ from_public_raw(parse_auth_token(call.input).k) = PubOk(sg.key)
                /\ parse_auth_token(call.input).t[1] = sg.msg
                /\ Split(sg.msg, DOT)[2] = B64Encode(Json(call.vres.claims))
        /\ (SignedOk /\ call.input = SwapK(signCall.res.header, signCall.sig.key))
            => (call.vres.tag = "Err"
                /\ call.vres.msg \in {"Verify failed", "Verify failed ErrorStack"})

\* C8: schema detection.  For every header that has a schema token, after an
\* optional "Authorization:", and whose schema is neither vapid nor webpush
\* (the schema token alone included), parse_auth_token returns the
\* unknown-schema error and its message names that schema token.
C8_UnknownSchema ==
    (/\ call.op = "parse"
     /\ HasSchemaToken(call.input)
     /\ ToLowercase(SchemaToken(call.input)) \notin {<<W("vapid")>>, <<W("webpush")>>})
        => call.pres = ParseErr("Unknown schema type: ", SchemaToken(call.input))

\* C9: field and segment arity of the vapid schema.  parse_auth_token
\* succeeds only for a header with a t field and a k field whose t value has
\* exactly 3 dot-separated parts, the result then being t = <<part0 "."
\* part1, part2>> and k the k value; every header lacking t or k, or whose t
\* value has another number of parts, is rejected with an error.
C9_VapidArity ==
    (/\ call.op = "parse"
     /\ HasSchemaToken(call.input)
     /\ ToLowercase(SchemaToken(call.input)) = <<W("vapid")>>)
        => LET ts == FieldValues(call.input, "t")
               ks == FieldValues(call.input, "k")
               wellFormed == /\ ts # {}
                             /\ ks # {}
                             /\ \A t \in ts : Len(Split(t, DOT)) = 3
           IN  /\ call.pres.tag = "Ok" =>
                    /\ wellFormed
                    /\ Len(call.pres.t) = 2
                    /\ \E t \in ts :
                          call.pres.t = <<Split(t, DOT)[1] \o <<DOT>> \o Split(t, DOT)[2],
                                          Split(t, DOT)[3]>>
                    /\ call.pres.k \in ks
               /\ ~wellFormed => call.pres.tag = "Err"

\* C10: signature encode.  sign succeeds only when each integer of the
\* primitive's signature has encoded length 32, or 33 with a leading 0x00
\* (any other length makes it fail), and then the raw signature is exactly
\* 64 bytes, r in bytes 0..31 and s in bytes 32..63.
C10_EncodeLengths ==
    SignedOk =>
        LET raw == DecodedBytes(Split(WireT(signCall.res.header), DOT)[3]).bytes
        IN  /\ EncodedLen(signCall.sig.r) \in {HalfLen, PaddedLen}
            /\ EncodedLen(signCall.sig.s) \in {HalfLen, PaddedLen}
            /\ Len(raw) = 2 * HalfLen
            /\ SubSeq(raw, 1, HalfLen) = Canon32(signCall.sig.r)
            /\ SubSeq(raw, HalfLen + 1, 2 * HalfLen) = Canon32(signCall.sig.s)

\* the minimal big-endian bytes of the integer a 32-byte half holds: no
\* leading zero byte, the integer 0 being the single byte 0x00
RECURSIVE MinBytes(_)
MinBytes(b) == IF Len(b) > 1 /\ b[1] = 0 THEN MinBytes(Tail(b)) ELSE b

\* the raw signature verify decodes from a header, when it is 64 bytes
RawOfInput(h) ==
    LET parsed == parse_auth_token(h)
    IN  IF parsed.tag = "Ok" /\ Len(parsed.t) = 2
        THEN DecodedBytes(parsed.t[2])
        ELSE [ok |-> FALSE, bytes |-> <<>>]

HasRaw64(h) == RawOfInput(h).ok /\ Len(RawOfInput(h).bytes) = 2 * HalfLen

\* C11: signature decode.  For every 64-byte raw signature r||s handed to
\* verify, each half is padded with 0x00 to content length 33 exactly when
\* its first byte is above 127 and is 32 bytes otherwise, each is wrapped as
\* 0x02 + length + content and both as 0x30 + total length with exact
\* lengths, and the sequence is byte-identical to the minimal-length DER
\* encoding of the same (r, s), halves with a leading 0x00 included.
C11_DecodeIsDer ==
    (call.op = "verify" /\ HasRaw64(call.input)) =>
        LET raw == RawOfInput(call.input).bytes
            r == Slice(raw, 0, HalfLen)
            s == Slice(raw, HalfLen, 2 * HalfLen)
            pad(v) == IF v[1] > 127 THEN <<0>> ELSE <<>>
            asn(v) == <<2, Len(pad(v) \o v)>> \o pad(v) \o v
            seq == ComposeDer(raw)
        IN  /\ seq = <<48, Len(asn(r)) + Len(asn(s))>> \o asn(r) \o asn(s)
            /\ Len(asn(r)) = (IF r[1] > 127 THEN PaddedLen ELSE HalfLen) + 2
            /\ Len(asn(s)) = (IF s[1] > 127 THEN PaddedLen ELSE HalfLen) + 2
            /\ seq = DerSig(MinBytes(r), MinBytes(s))

====
